---- MODULE Spec2Model ----
(***************************************************************************)
(* Model of domino-rs (src/src/lib.rs): the nested-frame CommandList and   *)
(* the MVCSystem dispatch loop with its three scoped tokens.               *)
(*                                                                         *)
(* Two specifications share the variables:                                 *)
(*   SpecCL  drives a bare CommandList through its public methods;         *)
(*   Spec    drives an MVCSystem: process_input / redirect_output_target,  *)
(*           sync_output, the drain loop, and role handlers that call the  *)
(*           token methods in any order before returning.                  *)
(***************************************************************************)
EXTENDS Integers, Sequences, FiniteSets, TLC

\* ---- bounds ------------------------------------------------------------
\* envelopes created in one behaviour of Spec (ids 1..MaxMsgs)
MaxMsgs == 4
\* handler invocations nested on the call stack (depth of `*_now` calls)
MaxDepth == 3
\* commands inserted in one behaviour of SpecCL
MaxCommands == 3
\* stashed frames in SpecCL
MaxFrames == 3

VARIABLES
    command_list,   \* CommandList { current_frame, stashed_frames }
    pc,             \* "idle", or the entry point whose drain loop is running
    callstack,      \* handler invocations in progress, outermost first
    tokens,         \* the token objects that exist
    nextId,         \* next fresh envelope / command identity
    sched,          \* history: sched[id] = how envelope id was scheduled
    log,            \* history: dispatch / begin / end events in order
    calls,          \* history (SpecCL): the last two CommandList calls
    output,         \* the last sync_output call made on the view
    frame_owner,    \* history: for each frame, bottom first and the current
                    \* frame last, the handler invocation it was started for
    popped          \* history: what the drain loop popped, and what it left

vars == <<command_list, pc, callstack, tokens, nextId, sched, log, calls,
          output, frame_owner, popped>>

\* Option<T>: None is <<>>, Some(v) is <<v>>
None == <<>>
Some(v) == <<v>>

Last(s) == s[Len(s)]
Front(s) == SubSeq(s, 1, Len(s) - 1)

\* ---- mod command_queue -------------------------------------------------

new == [current_frame |-> <<>>, stashed_frames |-> <<>>]

pop_command(cl) ==
    IF cl.current_frame = <<>>
    THEN [cl |-> cl, ret |-> None]
    ELSE [cl |-> [cl EXCEPT !.current_frame = Tail(@)],
          ret |-> Some(Head(cl.current_frame))]

maybe_pop_frame_oldest(cl) ==
    IF cl.current_frame # <<>>
    THEN [cl |-> cl, ret |-> FALSE]
    ELSE IF cl.stashed_frames # <<>>
    THEN [cl |-> [current_frame |-> Head(cl.stashed_frames),
                  stashed_frames |-> Tail(cl.stashed_frames)],
          ret |-> TRUE]
    ELSE [cl |-> cl, ret |-> FALSE]

maybe_pop_frame_unguarded(cl) ==
    IF cl.stashed_frames # <<>>
    THEN [cl |-> [current_frame |-> Last(cl.stashed_frames),
                  stashed_frames |-> Front(cl.stashed_frames)],
          ret |-> TRUE]
    ELSE [cl |-> cl, ret |-> FALSE]

maybe_pop_frame(cl) ==
    IF cl.current_frame # <<>>
    THEN [cl |-> cl, ret |-> FALSE]
    ELSE IF cl.stashed_frames # <<>>
    THEN [cl |-> [current_frame |-> Last(cl.stashed_frames),
                  stashed_frames |-> Front(cl.stashed_frames)],
          ret |-> TRUE]
    ELSE [cl |-> cl, ret |-> FALSE]

pop_command_and_maybe_frame_current_only(cl) == pop_command(cl)

RECURSIVE pop_command_and_maybe_frame(_)
pop_command_and_maybe_frame(cl) ==
    LET p == pop_command(cl) IN
    IF p.ret # None
    THEN p
    ELSE LET m == maybe_pop_frame(cl) IN
         IF ~m.ret
         THEN [cl |-> m.cl, ret |-> None]
         ELSE pop_command_and_maybe_frame(m.cl)

push_immediate_command_back(cl, new_command) ==
    [cl EXCEPT !.current_frame = Append(@, new_command)]

push_immediate_command(cl, new_command) ==
    [cl EXCEPT !.current_frame = <<new_command>> \o @]

add_command_to_current_frame_outer(cl, new_command) ==
    IF cl.stashed_frames # <<>>
    THEN [cl EXCEPT !.stashed_frames[Len(cl.stashed_frames)] = Append(@, new_command)]
    ELSE [cl EXCEPT !.current_frame = Append(@, new_command)]

add_command_to_current_frame_bottom(cl, new_command) ==
    IF cl.stashed_frames # <<>>
    THEN [cl EXCEPT !.stashed_frames[1] = Append(@, new_command)]
    ELSE [cl EXCEPT !.current_frame = Append(@, new_command)]

add_command_to_current_frame(cl, new_command) ==
    [cl EXCEPT !.current_frame = Append(@, new_command)]

add_command_to_bottom_frame_front(cl, new_command) ==
    IF cl.stashed_frames # <<>>
    THEN [cl EXCEPT !.stashed_frames[1] = <<new_command>> \o @]
    ELSE [cl EXCEPT !.current_frame = <<new_command>> \o @]

add_command_to_bottom_frame_current(cl, new_command) ==
    [cl EXCEPT !.current_frame = Append(@, new_command)]

add_command_to_bottom_frame_top(cl, new_command) ==
    IF cl.stashed_frames # <<>>
    THEN [cl EXCEPT !.stashed_frames[Len(cl.stashed_frames)] = Append(@, new_command)]
    ELSE [cl EXCEPT !.current_frame = Append(@, new_command)]

add_command_to_bottom_frame(cl, new_command) ==
    IF cl.stashed_frames # <<>>
    THEN [cl EXCEPT !.stashed_frames[1] = Append(@, new_command)]
    ELSE [cl EXCEPT !.current_frame = Append(@, new_command)]

start_new_frame_discard(cl) ==
    [current_frame |-> <<>>,
     stashed_frames |-> Append(cl.stashed_frames, <<>>)]

start_new_frame_keeping(cl) ==
    [current_frame |-> cl.current_frame,
     stashed_frames |-> Append(cl.stashed_frames, cl.current_frame)]

start_new_frame_under(cl) ==
    [current_frame |-> <<>>,
     stashed_frames |-> <<cl.current_frame>> \o cl.stashed_frames]

start_new_frame(cl) ==
    [current_frame |-> <<>>,
     stashed_frames |-> Append(cl.stashed_frames, cl.current_frame)]

is_empty(cl) == cl.current_frame = <<>> /\ cl.stashed_frames = <<>>

is_current_frame_empty(cl) == cl.current_frame = <<>>

is_only_frame(cl) == cl.stashed_frames = <<>>

Init ==
    /\ command_list = new
    /\ pc = "idle"
    /\ callstack = <<>>
    /\ tokens = {}
    /\ nextId = 1
    /\ sched = <<>>
    /\ log = <<>>
    /\ calls = <<>>
    /\ output = "-"
    /\ frame_owner = <<0>>
    /\ popped = {}

\* ---- mod mvc ------------------------------------------------------------

\* enum MVCMessage: one envelope, with an identity used by the history
MVCMessage(id, kind, payload) == [id |-> id, kind |-> kind, payload |-> payload]

\* the payloads a handler can put in a notification: the translation hooks
\* below turn "yield" into a command and absorb "absorb"
Notifications == {"absorb", "yield"}

\* trait View: translate_model_notification, as overridden by an integrator
\* (the default body absorbs every notification)
translate_model_notification(model_notification) ==
    IF model_notification = "yield" THEN Some("cmd") ELSE None

\* trait Model: translate_controller_notification, likewise
translate_controller_notification(controller_notification) ==
    IF controller_notification = "yield" THEN Some("cmd") ELSE None

RECURSIVE exec_immediate_command_absorb_in_frame(_, _)
exec_immediate_command_absorb_in_frame(cl, command) ==
    CASE command.kind \in {"ModelCommand", "ViewCommand", "ControllerCommand"} ->
            LET role == CASE command.kind = "ModelCommand" -> "Model"
                          [] command.kind = "ViewCommand" -> "View"
                          [] command.kind = "ControllerCommand" -> "Controller"
            IN [cl |-> start_new_frame(cl),
                handler |-> Some([id |-> command.id, role |-> role]),
                token |-> Some([id |-> command.id, role |-> role])]
      [] command.kind = "ModelUpdateView" ->
            LET view_command == translate_model_notification(command.payload) IN
            IF view_command # None
            THEN exec_immediate_command_absorb_in_frame(cl,
                     MVCMessage(command.id, "ViewCommand", view_command[1]))
            ELSE [cl |-> start_new_frame(cl), handler |-> None, token |-> None]
      [] command.kind = "ControllerManipulatesModel" ->
            LET model_command == translate_controller_notification(command.payload) IN
            IF model_command # None
            THEN exec_immediate_command_absorb_in_frame(cl,
                     MVCMessage(command.id, "ModelCommand", model_command[1]))
            ELSE [cl |-> start_new_frame(cl), handler |-> None, token |-> None]

\* MVCSystem::exec_immediate_command up to the call of process_command:
\* the frame stack it leaves, and the handler invocation and token it creates
RECURSIVE exec_immediate_command(_, _)
exec_immediate_command(cl, command) ==
    CASE command.kind = "ModelCommand" ->
            [cl |-> start_new_frame(cl),
             handler |-> Some([id |-> command.id, role |-> "Model"]),
             token |-> Some([id |-> command.id, role |-> "Model"])]
      [] command.kind = "ModelUpdateView" ->
            LET view_command == translate_model_notification(command.payload) IN
            IF view_command # None
            THEN exec_immediate_command(cl,
                     MVCMessage(command.id, "ViewCommand", view_command[1]))
            ELSE [cl |-> cl, handler |-> None, token |-> None]
      [] command.kind = "ViewCommand" ->
            [cl |-> start_new_frame(cl),
             handler |-> Some([id |-> command.id, role |-> "View"]),
             token |-> Some([id |-> command.id, role |-> "View"])]
      [] command.kind = "ControllerManipulatesModel" ->
            LET model_command == translate_controller_notification(command.payload) IN
            IF model_command # None
            THEN exec_immediate_command(cl,
                     MVCMessage(command.id, "ModelCommand", model_command[1]))
            ELSE [cl |-> cl, handler |-> None, token |-> None]
      [] command.kind = "ControllerCommand" ->
            [cl |-> start_new_frame(cl),
             handler |-> Some([id |-> command.id, role |-> "Controller"]),
             token |-> Some([id |-> command.id, role |-> "Controller"])]

exec_immediate_command_in_new_frame_deferred(cl, command) ==
    [cl |-> push_immediate_command(cl, command), handler |-> None, token |-> None]

exec_immediate_command_in_new_frame(cl, command) ==
    exec_immediate_command(start_new_frame(cl), command)

\* ---- history ------------------------------------------------------------

Event(e, id, role) == [e |-> e, id |-> id, role |-> role]

RECURSIVE FrameIds(_)
FrameIds(frame) ==
    IF frame = <<>> THEN {} ELSE {Head(frame).id} \cup FrameIds(Tail(frame))

\* identities of the envelopes pending in any frame, active or stashed
Pending(cl) ==
    FrameIds(cl.current_frame)
        \cup UNION {FrameIds(cl.stashed_frames[i]) : i \in 1..Len(cl.stashed_frames)}

\* identities of the handler invocations on the call stack
InFlight == {callstack[i].id : i \in 1..Len(callstack)}

\* the owner of the frame an envelope scheduled in this mode is put in
\* (0: a frame not started for a handler invocation; `*_now` uses no frame)
FramePutIn(mode) ==
    CASE mode = "next" -> Last(frame_owner)
      [] mode \in {"later", "input"} -> frame_owner[1]
      [] mode = "now" -> 0

Scheduled(mode, by, command) ==
    [mode |-> mode, by |-> by, kind |-> command.kind, payload |-> command.payload,
     pending |-> Pending(command_list), inflight |-> InFlight,
     frame |-> FramePutIn(mode)]

\* the owners of the frames of cl, reached from the present frames by
\* restoring and starting frames, the last one started for handler (if any)
OwnersAfter(cl, handler) ==
    LET n == Len(cl.stashed_frames) + 1
        base == n - Len(handler)
        kept == SubSeq(frame_owner, 1, IF base < Len(frame_owner) THEN base
                                        ELSE Len(frame_owner))
    IN  kept \o [i \in 1..(base - Len(kept)) |-> 0]
             \o [i \in 1..Len(handler) |-> handler[i].id]

\* what a dispatch (a call of exec_immediate_command) adds to the state
Dispatched(command, e) ==
    /\ command_list' = e.cl
    /\ callstack' = callstack \o e.handler
    /\ tokens' = tokens \cup {e.token[i] : i \in 1..Len(e.token)}
    /\ log' = log \o <<Event("dispatch", command.id, "-")>>
                  \o [i \in 1..Len(e.handler) |->
                          Event("begin", e.handler[i].id, e.handler[i].role)]
    /\ frame_owner' = OwnersAfter(e.cl, e.handler)

\* ---- Spec: the MVCSystem -------------------------------------------------

process_input ==
    /\ pc = "idle"
    /\ nextId <= MaxMsgs
    /\ LET input == MVCMessage(nextId, "ControllerCommand", "cmd") IN
        /\ command_list' = add_command_to_bottom_frame(command_list, input)
        /\ sched' = Append(sched, Scheduled("input", 0, input))
    /\ nextId' = nextId + 1
    /\ pc' = "process_input"
    /\ UNCHANGED <<callstack, tokens, log, calls, output, frame_owner, popped>>

redirect_output_target ==
    /\ pc = "idle"
    /\ pc' = "redirect_output_target"
    /\ UNCHANGED <<command_list, callstack, tokens, nextId, sched, log, calls,
                   output, frame_owner, popped>>

\* what a sync_output call leaves alone: everything but the view's output
syncvars == <<command_list, pc, callstack, tokens, nextId, sched, log, calls,
              frame_owner, popped>>

MVCSystem_sync_output_draining ==
    /\ pc = "idle"
    /\ output' = "MVCSystem::sync_output"
    /\ pc' = "sync_output"
    /\ UNCHANGED <<command_list, callstack, tokens, nextId, sched, log, calls,
                   frame_owner, popped>>

\* MVCSystem::sync_output borrows the system (&self), so it is called between
\* entry points; the view writes its output with a default parameter
MVCSystem_sync_output ==
    /\ pc = "idle"
    /\ output' = "MVCSystem::sync_output"
    /\ UNCHANGED syncvars

MVCSystem_sync_output_with_parameter ==
    /\ pc = "idle"
    /\ output' = "MVCSystem::sync_output_with_parameter"
    /\ UNCHANGED syncvars

\* one turn of the while-let loop of exec_pending_commands, up to the call of
\* the handler (or to the end of the turn when no handler is called)
exec_pending_commands ==
    /\ pc # "idle"
    /\ callstack = <<>>
    /\ LET p == pop_command_and_maybe_frame(command_list) IN
        IF p.ret = None
        THEN /\ command_list' = p.cl
             /\ pc' = "idle"
             /\ frame_owner' = OwnersAfter(p.cl, None)
             /\ UNCHANGED <<callstack, tokens, log, popped>>
        ELSE /\ Dispatched(p.ret[1], exec_immediate_command(p.cl, p.ret[1]))
             /\ popped' = popped \cup {[id |-> p.ret[1].id,
                                         rest |-> FrameIds(p.cl.current_frame)]}
             /\ pc' = pc
    /\ UNCHANGED <<nextId, sched, calls, output>>

\* the handler running now is the innermost invocation on the call stack,
\* and it holds the token of its role
Running(role) == callstack # <<>> /\ Last(callstack).role = role

\* a `*_now` method: exec_immediate_command_in_new_frame(envelope)
Now(kind, payload) ==
    /\ nextId <= MaxMsgs
    /\ Len(callstack) < MaxDepth
    /\ LET command == MVCMessage(nextId, kind, payload) IN
        /\ Dispatched(command, exec_immediate_command_in_new_frame(command_list, command))
        /\ sched' = Append(sched, Scheduled("now", Last(callstack).id, command))
    /\ nextId' = nextId + 1
    /\ UNCHANGED <<pc, calls, output, popped>>

NextInFrame_immediate(kind, payload) ==
    /\ nextId <= MaxMsgs
    /\ Len(callstack) < MaxDepth
    /\ LET command == MVCMessage(nextId, kind, payload) IN
        /\ Dispatched(command, exec_immediate_command_in_new_frame(command_list, command))
        /\ sched' = Append(sched, Scheduled("next", Last(callstack).id, command))
    /\ nextId' = nextId + 1
    /\ UNCHANGED <<pc, calls, output, popped>>

\* a `*_next` method: command_list.add_command_to_current_frame(envelope)
NextInFrame(kind, payload) ==
    /\ nextId <= MaxMsgs
    /\ LET command == MVCMessage(nextId, kind, payload) IN
        /\ command_list' = add_command_to_current_frame(command_list, command)
        /\ sched' = Append(sched, Scheduled("next", Last(callstack).id, command))
    /\ nextId' = nextId + 1
    /\ UNCHANGED <<pc, callstack, tokens, log, calls, output, frame_owner, popped>>

\* a `*_later` method: command_list.add_command_to_bottom_frame(envelope)
Later(kind, payload) ==
    /\ nextId <= MaxMsgs
    /\ LET command == MVCMessage(nextId, kind, payload) IN
        /\ command_list' = add_command_to_bottom_frame(command_list, command)
        /\ sched' = Append(sched, Scheduled("later", Last(callstack).id, command))
    /\ nextId' = nextId + 1
    /\ UNCHANGED <<pc, callstack, tokens, log, calls, output, frame_owner, popped>>

ModelToken_exec_command_now ==
    /\ Running("Model")
    /\ Now("ModelCommand", "cmd")

ModelToken_exec_command_next ==
    /\ Running("Model")
    /\ NextInFrame("ModelCommand", "cmd")

ModelToken_exec_command_later ==
    /\ Running("Model")
    /\ Later("ModelCommand", "cmd")

ModelToken_update_view_now ==
    /\ Running("Model")
    /\ \E notification \in Notifications : Now("ModelUpdateView", notification)

ModelToken_update_view_next ==
    /\ Running("Model")
    /\ \E notification \in Notifications : NextInFrame("ModelUpdateView", notification)

ModelToken_update_view_later ==
    /\ Running("Model")
    /\ \E notification \in Notifications : Later("ModelUpdateView", notification)

ViewToken_exec_command_now ==
    /\ Running("View")
    /\ Now("ViewCommand", "cmd")

ViewToken_exec_command_next ==
    /\ Running("View")
    /\ NextInFrame("ViewCommand", "cmd")

ViewToken_exec_command_later ==
    /\ Running("View")
    /\ Later("ViewCommand", "cmd")

ViewToken_sync_output ==
    /\ Running("View")
    /\ output' = "ViewToken::sync_output"
    /\ UNCHANGED syncvars

ViewToken_sync_output_with_parameter ==
    /\ Running("View")
    /\ output' = "ViewToken::sync_output_with_parameter"
    /\ UNCHANGED syncvars

ControllerToken_exec_command_now ==
    /\ Running("Controller")
    /\ Now("ControllerCommand", "cmd")

ControllerToken_exec_command_next ==
    /\ Running("Controller")
    /\ NextInFrame("ControllerCommand", "cmd")

ControllerToken_exec_command_later ==
    /\ Running("Controller")
    /\ Later("ControllerCommand", "cmd")

ControllerToken_manipulate_model_now ==
    /\ Running("Controller")
    /\ \E notification \in Notifications : Now("ControllerManipulatesModel", notification)

ControllerToken_manipulate_model_next ==
    /\ Running("Controller")
    /\ \E notification \in Notifications : NextInFrame("ControllerManipulatesModel", notification)

ControllerToken_manipulate_model_later ==
    /\ Running("Controller")
    /\ \E notification \in Notifications : Later("ControllerManipulatesModel", notification)

process_command_return_keeping_token ==
    /\ callstack # <<>>
    /\ callstack' = Front(callstack)
    /\ tokens' = tokens
    /\ log' = Append(log, Event("end", Last(callstack).id, Last(callstack).role))
    /\ UNCHANGED <<command_list, pc, nextId, sched, calls, output, frame_owner, popped>>

\* a process_command body returns: its token is dropped with it
process_command_return ==
    /\ callstack # <<>>
    /\ callstack' = Front(callstack)
    /\ tokens' = tokens \ {Last(callstack)}
    /\ log' = Append(log, Event("end", Last(callstack).id, Last(callstack).role))
    /\ UNCHANGED <<command_list, pc, nextId, sched, calls, output, frame_owner, popped>>

Next ==
    \/ process_input
    \/ redirect_output_target
    \/ MVCSystem_sync_output
    \/ MVCSystem_sync_output_with_parameter
    \/ exec_pending_commands
    \/ ModelToken_exec_command_now
    \/ ModelToken_exec_command_next
    \/ ModelToken_exec_command_later
    \/ ModelToken_update_view_now
    \/ ModelToken_update_view_next
    \/ ModelToken_update_view_later
    \/ ViewToken_exec_command_now
    \/ ViewToken_exec_command_next
    \/ ViewToken_exec_command_later
    \/ ViewToken_sync_output
    \/ ViewToken_sync_output_with_parameter
    \/ ControllerToken_exec_command_now
    \/ ControllerToken_exec_command_next
    \/ ControllerToken_exec_command_later
    \/ ControllerToken_manipulate_model_now
    \/ ControllerToken_manipulate_model_next
    \/ ControllerToken_manipulate_model_later
    \/ process_command_return

Spec == Init /\ [][Next]_vars

\* ---- claims about the MVCSystem (checked under Spec) ----------------------

\* positions in the log of the events e of envelope / invocation id
At(e, id) == {i \in 1..Len(log) : log[i].e = e /\ log[i].id = id}

Before(e1, id1, k) == \E j \in At(e1, id1) : j < k

Ids == 1..Len(sched)

IsCommandKind(kind) == kind \in {"ModelCommand", "ViewCommand", "ControllerCommand"}

\* the envelope reaches a process_command: a command, or a notification
\* that its translation hook turns into one
YieldsCommand(id) == IsCommandKind(sched[id].kind) \/ sched[id].payload = "yield"

\* the role whose process_command an envelope of this kind ends in
TargetRole(kind) ==
    CASE kind \in {"ModelCommand", "ControllerManipulatesModel"} -> "Model"
      [] kind \in {"ViewCommand", "ModelUpdateView"} -> "View"
      [] kind = "ControllerCommand" -> "Controller"

\* C1: an envelope scheduled with a `*_later` method is dispatched only after
\* (i) every handler invocation that was in flight when it was scheduled has
\* returned and (ii) every envelope that was pending in any frame when it was
\* scheduled has been dispatched.
C1_LaterAfterInFlightAndPending ==
    \A x \in Ids :
        sched[x].mode = "later" =>
            \A k \in At("dispatch", x) :
                /\ \A h \in sched[x].inflight : Before("end", h, k)
                /\ \A m \in sched[x].pending : Before("dispatch", m, k)

C1_Witness ==
    \E x \in Ids :
        /\ sched[x].mode = "later"
        /\ At("dispatch", x) # {}
        /\ Cardinality(sched[x].inflight) >= 2
        /\ sched[x].pending # {}

\* C2: once a `*_now` call has returned (its caller is running again, or has
\* itself returned), the target role's process_command for the command it
\* was given, or for the command its notification translates to, has been
\* invoked and has returned; so nothing scheduled `*_now` is still
\* unprocessed when process_input returns.
C2_NowIsSynchronous ==
    \A n \in Ids :
        (sched[n].mode = "now" /\ YieldsCommand(n)) =>
            /\ \E i \in At("begin", n) : log[i].role = TargetRole(sched[n].kind)
            /\ (sched[n].by \notin InFlight \/ Last(callstack).id = sched[n].by)
                   => At("end", n) # {}
            /\ pc = "idle" => At("end", n) # {}

C2_Witness ==
    /\ pc = "idle"
    /\ \E n \in Ids :
        /\ sched[n].mode = "now"
        /\ sched[n].kind = "ControllerManipulatesModel"
        /\ sched[n].payload = "yield"
        /\ sched[sched[n].by].mode = "input"
        /\ \E i \in At("begin", n) : log[i].role = "Model"
        /\ At("end", n) # {}

\* C3: if one handler invocation schedules x with a `*_later` method and y
\* with a `*_next` method, x is not dispatched before y has been.
C3_NextBeforeLater ==
    \A x \in Ids : \A y \in Ids :
        (/\ sched[x].mode = "later"
         /\ sched[y].mode = "next"
         /\ sched[x].by = sched[y].by)
        => \A k \in At("dispatch", x) : Before("dispatch", y, k)

C3_Witness ==
    \E x \in Ids : \E y \in Ids :
        /\ sched[x].mode = "later"
        /\ sched[y].mode = "next"
        /\ sched[x].by = sched[y].by
        /\ x < y
        /\ sched[sched[x].by].mode = "now"
        /\ At("dispatch", x) # {}
        /\ At("dispatch", y) # {}

\* C4: when no entry point is running (process_input or
\* redirect_output_target has returned) the active frame is empty and no
\* frame is stashed.
C4_NothingLeftAfterReturn ==
    pc = "idle" =>
        /\ command_list.current_frame = <<>>
        /\ command_list.stashed_frames = <<>>

C4_Witness ==
    /\ pc = "idle"
    /\ \E x \in Ids : sched[x].mode = "later" /\ At("dispatch", x) # {}
    /\ \E y \in Ids : sched[y].mode = "next" /\ At("dispatch", y) # {}
    /\ \E n \in Ids : sched[n].mode = "now" /\ At("end", n) # {}

IsAbsorbed(command) ==
    /\ command.kind \in {"ModelUpdateView", "ControllerManipulatesModel"}
    /\ command.payload = "absorb"

\* C9: when the drain loop pops a notification whose translation hook
\* returns None, the step only removes that envelope: no handler is invoked,
\* no token is created, no envelope is added, no frame is started, and the
\* loop goes on.
C9_AbsorbedNotificationDoesNothing ==
    [][LET p == pop_command_and_maybe_frame(command_list) IN
       (/\ pc # "idle"
        /\ callstack = <<>>
        /\ p.ret # None
        /\ IsAbsorbed(p.ret[1]))
       => /\ command_list' = p.cl
          /\ callstack' = <<>>
          /\ tokens' = tokens
          /\ nextId' = nextId
          /\ log' = Append(log, Event("dispatch", p.ret[1].id, "-"))
          /\ pc' = pc]_vars

C9_Witness ==
    \E n \in Ids :
        /\ sched[n].mode \in {"next", "later"}
        /\ ~YieldsCommand(n)
        /\ At("dispatch", n) # {}
        /\ \E m \in Ids : \E j \in At("dispatch", m) : \E i \in At("dispatch", n) : i < j

\* C10 (as claimed): at most one token exists at any instant.
C10_AtMostOneToken == Cardinality(tokens) <= 1

\* C10 (amended): the tokens that exist are exactly those of the handler
\* invocations on the call stack, one each; the outermost was created by the
\* drain loop and every further one by a `*_now` call of the invocation
\* just below it.
C10_OneTokenPerInvocationInProgress ==
    /\ tokens = {callstack[i] : i \in 1..Len(callstack)}
    /\ Cardinality(tokens) = Len(callstack)
    /\ callstack # <<>> => sched[callstack[1].id].mode # "now"
    /\ \A i \in 2..Len(callstack) :
        /\ sched[callstack[i].id].mode = "now"
        /\ sched[callstack[i].id].by = callstack[i - 1].id

C10_Witness ==
    /\ Cardinality(tokens) = 3
    /\ \E t \in tokens : t.role = "View"

\* C11 (as claimed): every envelope scheduled with a `*_next` method is put
\* in the frame that start_new_frame created for the handler invocation
\* that scheduled it.
C11_NextLandsInOwnFrame ==
    \A y \in Ids : sched[y].mode = "next" => sched[y].frame = sched[y].by

\* C12: an envelope scheduled with a `*_next` or `*_later` method is
\* dispatched only after every handler invocation that was on the call stack
\* when it was scheduled has returned, and the call stack never holds more
\* handler invocations than 1 plus the `*_now` calls in progress.
C12_DeferredNeverRunsOnCallStack ==
    /\ \A x \in Ids :
        sched[x].mode \in {"next", "later"} =>
            \A k \in At("dispatch", x) :
                \A h \in sched[x].inflight : Before("end", h, k)
    /\ Len(callstack) <=
          1 + Cardinality({i \in 1..Len(callstack) : sched[callstack[i].id].mode = "now"})

C12_Witness ==
    /\ Len(callstack) = 3
    /\ sched[callstack[1].id].mode = "next"
    /\ At("end", sched[callstack[1].id].by) # {}

\* C13: a step that writes the view's output (sync_output or
\* sync_output_with_parameter, on MVCSystem or on ViewToken) leaves the
\* active frame and the stashed frames as they are, invokes no handler and
\* neither enters nor advances the drain loop.
C13_SyncOutputLeavesSchedulerAlone ==
    [][output' # output =>
        /\ command_list' = command_list
        /\ callstack' = callstack
        /\ tokens' = tokens
        /\ log' = log
        /\ pc' = pc
        /\ sched' = sched]_vars

C13_Witness ==
    /\ output = "ViewToken::sync_output_with_parameter"
    /\ Running("View")
    /\ Pending(command_list) # {}

 -------------------

\* all frames of the command list, oldest stashed first, active frame last
AllFrames == command_list.stashed_frames \o <<command_list.current_frame>>

\* C16: in every step that begins a handler the active frame ends up empty
\* (the debug assertion of start_new_frame holds) and the frame that was
\* active just before the handler's start_new_frame is the most recently
\* stashed one, unchanged: for a handler called from the drain loop that is
\* the rest of the frame its envelope was popped from, on top of the frames
\* stashed before it; for a handler called by `*_now` it is the empty frame
\* started by exec_immediate_command_in_new_frame, on top of the caller's
\* frame and stash.
C16_HandlerStartsOnEmptyFrame ==
    [][(Len(log') > Len(log) /\ Last(log').e = "begin") =>
        /\ command_list'.current_frame = <<>>
        /\ IF callstack = <<>>
           THEN LET S == {i \in 1..Len(AllFrames) : AllFrames[i] # <<>>}
                    i == CHOOSE k \in S : \A j \in S : j <= k
                IN  command_list'.stashed_frames =
                        SubSeq(AllFrames, 1, i - 1) \o <<Tail(AllFrames[i])>>
           ELSE command_list'.stashed_frames = AllFrames \o << <<>> >>]_vars

C16_Witness ==
    /\ log # <<>>
    /\ Last(log).e = "begin"
    /\ Len(callstack) >= 2
    /\ command_list.current_frame = <<>>
    /\ Len(command_list.stashed_frames) >= 3
    /\ command_list.stashed_frames[Len(command_list.stashed_frames) - 1] # <<>>

\* the envelopes that the invocations in S scheduled with `*_next` or
\* `*_now`, and those that these in turn caused in the same way
RECURSIVE CausedBy(_)
CausedBy(S) ==
    LET T == S \cup {c \in Ids : sched[c].by \in S /\ sched[c].mode \in {"next", "now"}}
    IN  IF T = S THEN S ELSE CausedBy(T)

C18_NextIsFifoPerInvocation ==
    \A a \in Ids : \A b \in Ids :
        (/\ a < b
         /\ sched[a].mode = "next"
         /\ sched[b].mode = "next"
         /\ sched[a].by = sched[b].by)
        => \A k \in At("dispatch", b) : Before("dispatch", a, k)

\* C19: no envelope is dispatched twice, an envelope not yet dispatched is
\* still pending in some frame (and a pending one has not been dispatched),
\* and when no entry point is running every envelope scheduled so far has
\* been dispatched exactly once.
C19_EveryEnvelopeDispatchedOnce ==
    LET pending == Pending(command_list) IN
    \A id \in Ids :
        LET n == Cardinality(At("dispatch", id)) IN
        /\ n <= 1
        /\ (n = 0) <=> (id \in pending)
        /\ pc = "idle" => n = 1

C19_Witness ==
    /\ pc = "idle"
    /\ Len(sched) >= 4
    /\ \E id \in popped : id.rest # {}
    /\ \E n \in Ids : sched[n].mode = "now" /\ YieldsCommand(n)
    /\ \A id \in Ids : Cardinality(At("dispatch", id)) = 1

\* C20: envelopes scheduled with `*_later` methods are dispatched in the
\* order they were scheduled, whichever handler invocations scheduled them;
\* while a handler runs a frame is stashed, and a `*_later` envelope stays
\* in the bottom frame (the first stashed one) until it is dispatched.
C20_LaterIsFifoOverall ==
    /\ \A a \in Ids : \A b \in Ids :
        (a < b /\ sched[a].mode = "later" /\ sched[b].mode = "later")
        => \A k \in At("dispatch", b) : Before("dispatch", a, k)
    /\ callstack # <<>> => command_list.stashed_frames # <<>>
    /\ LET pending == Pending(command_list)
           bottom == FrameIds(AllFrames[1])
       IN  \A x \in Ids :
               (sched[x].mode = "later" /\ x \in pending) => x \in bottom

C20_Witness ==
    \E a \in Ids : \E b \in Ids :
        /\ a < b
        /\ sched[a].mode = "later"
        /\ sched[b].mode = "later"
        /\ sched[a].by # sched[b].by
        /\ Cardinality(sched[b].inflight) >= 2
        /\ At("dispatch", b) # {}

\* ---- SpecCL: a CommandList driven through its methods -------------------

\* the record of one call: its name, argument, result and the list before it
Call(op, arg, ret) == [op |-> op, arg |-> arg, ret |-> ret, pre |-> command_list]

Record(c) == calls' = IF calls = <<>> THEN <<c>> ELSE <<Last(calls), c>>

mvcvars == <<pc, callstack, tokens, sched, log, output, frame_owner, popped>>

Command(via) == [id |-> nextId, via |-> via]

PopCommand ==
    /\ LET p == pop_command(command_list) IN
        /\ command_list' = p.cl
        /\ Record(Call("pop_command", None, p.ret))
    /\ UNCHANGED <<nextId, mvcvars>>

PopCommandAndMaybeFrame ==
    /\ LET p == pop_command_and_maybe_frame(command_list) IN
        /\ command_list' = p.cl
        /\ Record(Call("pop_command_and_maybe_frame", None, p.ret))
    /\ UNCHANGED <<nextId, mvcvars>>

PushImmediateCommand ==
    /\ nextId <= MaxCommands
    /\ LET c == Command("immediate") IN
        /\ command_list' = push_immediate_command(command_list, c)
        /\ Record(Call("push_immediate_command", Some(c), None))
    /\ nextId' = nextId + 1
    /\ UNCHANGED mvcvars

AddCommandToCurrentFrame ==
    /\ nextId <= MaxCommands
    /\ LET c == Command("current") IN
        /\ command_list' = add_command_to_current_frame(command_list, c)
        /\ Record(Call("add_command_to_current_frame", Some(c), None))
    /\ nextId' = nextId + 1
    /\ UNCHANGED mvcvars

AddCommandToBottomFrame ==
    /\ nextId <= MaxCommands
    /\ LET c == Command("bottom") IN
        /\ command_list' = add_command_to_bottom_frame(command_list, c)
        /\ Record(Call("add_command_to_bottom_frame", Some(c), None))
    /\ nextId' = nextId + 1
    /\ UNCHANGED mvcvars

StartNewFrame ==
    /\ Len(command_list.stashed_frames) < MaxFrames
    /\ command_list' = start_new_frame(command_list)
    /\ Record(Call("start_new_frame", None, None))
    /\ UNCHANGED <<nextId, mvcvars>>

MaybePopFrame ==
    /\ LET m == maybe_pop_frame(command_list) IN
        /\ command_list' = m.cl
        /\ Record(Call("maybe_pop_frame", None, Some(m.ret)))
    /\ UNCHANGED <<nextId, mvcvars>>

NextCL ==
    \/ PopCommand
    \/ PopCommandAndMaybeFrame
    \/ PushImmediateCommand
    \/ AddCommandToCurrentFrame
    \/ AddCommandToBottomFrame
    \/ StartNewFrame
    \/ MaybePopFrame

SpecCL == Init /\ [][NextCL]_vars

\* ---- claims about the CommandList (checked under SpecCL) ----------------

LastCall == Last(calls)

\* every frame other than the bottom one (stashed_frames[1], or the current
\* frame when nothing is stashed) holds no command
UpperFramesExhausted(cl) ==
    cl.stashed_frames # <<>> =>
        /\ cl.current_frame = <<>>
        /\ \A i \in 2..Len(cl.stashed_frames) : cl.stashed_frames[i] = <<>>

AllFramesEmpty(cl) ==
    /\ cl.current_frame = <<>>
    /\ \A i \in 1..Len(cl.stashed_frames) : cl.stashed_frames[i] = <<>>

\* C5: whenever pop_command_and_maybe_frame returns a command that was
\* inserted by add_command_to_bottom_frame, every frame created after the
\* bottom frame was already exhausted before the call, and no stashed frame
\* is left after it.
C5_LaterOnlyAfterNestedFramesExhausted ==
    (/\ calls # <<>>
     /\ LastCall.op = "pop_command_and_maybe_frame"
     /\ LastCall.ret # None
     /\ LastCall.ret[1].via = "bottom")
    => /\ UpperFramesExhausted(LastCall.pre)
       /\ command_list.stashed_frames = <<>>

C5_Witness ==
    /\ calls # <<>>
    /\ LastCall.op = "pop_command_and_maybe_frame"
    /\ LastCall.ret # None
    /\ LastCall.ret[1].via = "bottom"
    /\ Len(LastCall.pre.stashed_frames) >= 2
    /\ LastCall.ret[1].id > 1

\* C6: right after push_immediate_command(c) the stashed frames are as they
\* were, the commands previously pending in the active frame follow c in
\* their old order, and a pop_command or pop_command_and_maybe_frame made
\* next returns c.
C6_PushImmediateIsPoppedFirst ==
    /\ (calls # <<>> /\ LastCall.op = "push_immediate_command")
       => /\ command_list.stashed_frames = LastCall.pre.stashed_frames
          /\ Tail(command_list.current_frame) = LastCall.pre.current_frame
          /\ pop_command(command_list).ret = LastCall.arg
          /\ pop_command_and_maybe_frame(command_list).ret = LastCall.arg
    /\ (/\ Len(calls) = 2
        /\ calls[1].op = "push_immediate_command"
        /\ calls[2].op \in {"pop_command", "pop_command_and_maybe_frame"})
       => calls[2].ret = calls[1].arg

C6_Witness ==
    /\ Len(calls) = 2
    /\ calls[1].op = "push_immediate_command"
    /\ calls[1].pre.current_frame # <<>>
    /\ calls[1].pre.stashed_frames # <<>>
    /\ calls[2].op = "pop_command_and_maybe_frame"
    /\ calls[2].ret = calls[1].arg

\* C7 (as claimed): is_empty is true exactly when neither the active frame
\* nor any stashed frame holds a command.
C7_IsEmptyIffNoCommandAnywhere ==
    is_empty(command_list) <=> AllFramesEmpty(command_list)

\* C8: start_new_frame immediately followed by maybe_pop_frame returns true
\* and leaves the active frame and the stashed frames exactly as they were
\* before start_new_frame.
C8_StartThenMaybePopRoundTrip ==
    (/\ Len(calls) = 2
     /\ calls[1].op = "start_new_frame"
     /\ calls[2].op = "maybe_pop_frame")
    => /\ calls[2].ret = Some(TRUE)
       /\ command_list = calls[1].pre

C8_Witness ==
    /\ Len(calls) = 2
    /\ calls[1].op = "start_new_frame"
    /\ calls[2].op = "maybe_pop_frame"
    /\ Len(calls[1].pre.current_frame) >= 2
    /\ Len(calls[1].pre.stashed_frames) >= 2
    /\ calls[1].pre.stashed_frames[1] # calls[1].pre.stashed_frames[2]

\* all frames of a list, oldest stashed first and the active frame last
Frames(cl) == cl.stashed_frames \o <<cl.current_frame>>

\* C14: pop_command_and_maybe_frame returns the front of the newest
\* non-empty frame (the active frame first, then the stashed frames from
\* the most recently stashed down), makes the rest of that frame the active
\* frame and keeps only the frames stashed before it; when every frame is
\* empty it returns None and leaves an empty active frame and no stash.
C14_PopCrossesFramesNewestFirst ==
    (calls # <<>> /\ LastCall.op = "pop_command_and_maybe_frame") =>
        LET fr == Frames(LastCall.pre)
            S == {i \in 1..Len(fr) : fr[i] # <<>>}
        IN  IF S = {}
            THEN /\ LastCall.ret = None
                 /\ command_list = new
            ELSE LET i == CHOOSE k \in S : \A j \in S : j <= k IN
                 /\ LastCall.ret = Some(Head(fr[i]))
                 /\ command_list.current_frame = Tail(fr[i])
                 /\ command_list.stashed_frames = SubSeq(fr, 1, i - 1)

C14_Witness ==
    /\ calls # <<>>
    /\ LastCall.op = "pop_command_and_maybe_frame"
    /\ LastCall.pre.current_frame = <<>>
    /\ Len(LastCall.pre.stashed_frames) = 3
    /\ LastCall.pre.stashed_frames[3] = <<>>
    /\ LastCall.pre.stashed_frames[2] # <<>>
    /\ LastCall.pre.stashed_frames[1] # <<>>
    /\ LastCall.ret = Some(Head(LastCall.pre.stashed_frames[2]))

\* C15: maybe_pop_frame returns false and changes nothing when the active
\* frame is non-empty, or when it is empty and nothing is stashed;
\* otherwise it returns true, makes the most recently stashed frame the
\* active frame as it was, and leaves the older stashed frames unchanged.
C15_MaybePopFrameOutcomes ==
    (calls # <<>> /\ LastCall.op = "maybe_pop_frame") =>
        LET pre == LastCall.pre IN
        IF pre.current_frame # <<>> \/ pre.stashed_frames = <<>>
        THEN /\ LastCall.ret = Some(FALSE)
             /\ command_list = pre
        ELSE /\ LastCall.ret = Some(TRUE)
             /\ command_list.current_frame = pre.stashed_frames[Len(pre.stashed_frames)]
             /\ command_list.stashed_frames =
                    SubSeq(pre.stashed_frames, 1, Len(pre.stashed_frames) - 1)

C15_Witness ==
    /\ calls # <<>>
    /\ LastCall.op = "maybe_pop_frame"
    /\ LastCall.ret = Some(TRUE)
    /\ Len(LastCall.pre.stashed_frames) >= 2
    /\ Len(command_list.current_frame) >= 2
    /\ LastCall.pre.stashed_frames[1] # <<>>

====
